---- MODULE Spec2Model ----
(***************************************************************************)
(* The LinkedIn Ads optimizer Lambda (src/lambda/optimizer/handler.py):    *)
(* lambda_handler, optimize_creatives, optimize_bids, log_action and the   *)
(* bid heuristic.                                                          *)
(*                                                                         *)
(* Numbers.  The code computes on Python floats.  The model computes on    *)
(* exact rationals <<numerator, denominator>>: CTR in hundredths of a      *)
(* percent (1.0% = 100), money in cents ($8.00 = 800).  round(x, 2) is     *)
(* rounding to a whole number of cents, ties to the even cent.             *)
(***************************************************************************)
EXTENDS Integers, Sequences, FiniteSets, TLC

VARIABLES store, ledger, pc, df, bid_model, idx, actions,
          calls, log_entry, existing_logs, ret, loc, result, log_calls,
          log_failed, sinks, hx, rot, collector

vars == <<store, ledger, pc, df, bid_model, idx, actions,
          calls, log_entry, existing_logs, ret, loc, result, log_calls,
          log_failed, sinks, hx, rot, collector>>

(***************************************************************************)
(* Thresholds (module constants of the handler, at their defaults).        *)
(***************************************************************************)
MIN_CTR_THRESHOLD == 100
TOP_PERFORMER_THRESHOLD == 300
MAX_CPC == 800
MIN_SAMPLE_SIZE == 100
BID_CHANGE_THRESHOLD == 50
TARGET_CTR == 200
BID_FLOOR == 100
BID_CEILING == 1500

(***************************************************************************)
(* Bounds of the model.                                                    *)
(***************************************************************************)
MaxRecords == 2
MaxSmallRecords == 1
MaxCtrK == 24
CtrStep == 17
MaxCpcK == 60
CpcStep == 29
MaxVersion == 3
MaxRotationEvents == 4
MaxCampaigns == 3

(***************************************************************************)
(* Exact rationals.                                                        *)
(***************************************************************************)
RECURSIVE GCD(_, _)
GCD(a, b) == IF b = 0 THEN a ELSE GCD(b, a % b)

Rat(n) == <<n, 1>>

Norm(r) ==
    LET n == r[1]
        d == r[2]
        g == GCD(IF n < 0 THEN -n ELSE n, d)
    IN  IF g = 0 THEN <<0, 1>> ELSE <<n \div g, d \div g>>

RLe(a, b) == a[1] * b[2] <= b[1] * a[2]
RLt(a, b) == a[1] * b[2] < b[1] * a[2]
RMin(a, b) == IF RLe(a, b) THEN a ELSE b
RMax(a, b) == IF RLe(a, b) THEN b ELSE a
RMul(a, b) == Norm(<<a[1] * b[1], a[2] * b[2]>>)
RDiv(a, b) == Norm(<<a[1] * b[2], a[2] * b[1]>>)
RSub(a, b) == Norm(<<a[1] * b[2] - b[1] * a[2], a[2] * b[2]>>)
RAbs(a) == IF a[1] < 0 THEN <<-a[1], a[2]>> ELSE a

\* round(x, 2) of a non-negative amount in cents: the nearest whole cent.
Round2(r) ==
    LET q == r[1] \div r[2]
        m == r[1] % r[2]
    IN  IF 2 * m < r[2] THEN Rat(q)
        ELSE IF 2 * m > r[2] THEN Rat(q + 1)
        ELSE IF q % 2 = 0 THEN Rat(q) ELSE Rat(q + 1)

(***************************************************************************)
(* calculate_optimal_bid_heuristic and the variants used to test the       *)
(* sensitivity of the properties below.                                    *)
(***************************************************************************)
heuristic_no_floor(current_ctr, current_cpc) ==
    IF current_ctr[1] = 0 THEN current_cpc
    ELSE LET ctr_ratio == RDiv(Rat(TARGET_CTR), current_ctr)
             suggested_bid == RMul(current_cpc, ctr_ratio)
             max_increase == RMul(current_cpc, <<3, 2>>)
             min_decrease == RMul(current_cpc, <<7, 10>>)
             capped == RMax(min_decrease, RMin(max_increase, suggested_bid))
         IN  Round2(RMin(Rat(BID_CEILING), capped))

heuristic_inverted_ratio(current_ctr, current_cpc) ==
    IF current_ctr[1] = 0 THEN current_cpc
    ELSE LET ctr_ratio == RDiv(current_ctr, Rat(TARGET_CTR))
             suggested_bid == RMul(current_cpc, ctr_ratio)
             max_increase == RMul(current_cpc, <<3, 2>>)
             min_decrease == RMul(current_cpc, <<7, 10>>)
             capped == RMax(min_decrease, RMin(max_increase, suggested_bid))
         IN  Round2(RMax(Rat(BID_FLOOR), RMin(Rat(BID_CEILING), capped)))

heuristic_wide_caps(current_ctr, current_cpc) ==
    IF current_ctr[1] = 0 THEN current_cpc
    ELSE LET ctr_ratio == RDiv(Rat(TARGET_CTR), current_ctr)
             suggested_bid == RMul(current_cpc, ctr_ratio)
             max_increase == RMul(current_cpc, <<2, 1>>)
             min_decrease == RMul(current_cpc, <<1, 2>>)
             capped == RMax(min_decrease, RMin(max_increase, suggested_bid))
         IN  Round2(RMax(Rat(BID_FLOOR), RMin(Rat(BID_CEILING), capped)))

heuristic_no_caps(current_ctr, current_cpc) ==
    IF current_ctr[1] = 0 THEN current_cpc
    ELSE LET ctr_ratio == RDiv(Rat(TARGET_CTR), current_ctr)
             suggested_bid == RMul(current_cpc, ctr_ratio)
         IN  Round2(RMax(Rat(BID_FLOOR), RMin(Rat(BID_CEILING), suggested_bid)))

calculate_optimal_bid_heuristic(current_ctr, current_cpc) ==
    IF current_ctr[1] = 0 THEN current_cpc
    ELSE LET ctr_ratio == RDiv(Rat(TARGET_CTR), current_ctr)
             suggested_bid == RMul(current_cpc, ctr_ratio)
             max_increase == RMul(current_cpc, <<3, 2>>)
             min_decrease == RMul(current_cpc, <<7, 10>>)
             capped == RMax(min_decrease, RMin(max_increase, suggested_bid))
         IN  Round2(RMax(Rat(BID_FLOOR), RMin(Rat(BID_CEILING), capped)))

(***************************************************************************)
(* The data of a run.                                                      *)
(***************************************************************************)
Invocations == {"A", "B"}
CampaignIds == {1, 2}

Row(ctr, cpc, clicks, campaign) ==
    [campaign_id |-> campaign, avg_ctr |-> ctr, avg_cpc |-> cpc, total_clicks |-> clicks]

\* The rows the metrics table may hold: on each side of every threshold and
\* on the thresholds, with enough clicks (100) and one click short (99).
TableRows ==
    { Row(0, 50, 100, 2), Row(80, 400, 100, 1), Row(80, 900, 100, 1),
      Row(100, 400, 100, 1), Row(100, 400, 100, 2), Row(300, 800, 100, 1),
      Row(450, 300, 100, 2), Row(450, 900, 100, 1), Row(180, 400, 100, 1),
      Row(80, 400, 99, 1), Row(450, 300, 99, 1), Row(450, 900, 99, 2) }

SmallTableRows ==
    { Row(80, 900, 100, 1), Row(100, 400, 100, 1), Row(450, 300, 100, 2),
      Row(450, 900, 99, 2) }

\* The grouped rows in the order of the query, ORDER BY avg_ctr DESC; the
\* creative id of a row is its position.
OrderedByCtr(f) ==
    \A k \in DOMAIN f : k + 1 \in DOMAIN f => f[k].avg_ctr >= f[k + 1].avg_ctr

MkStore(f) ==
    [ k \in DOMAIN f |->
        [creative_id |-> k, campaign_id |-> f[k].campaign_id,
         avg_ctr |-> f[k].avg_ctr, avg_cpc |-> f[k].avg_cpc,
         total_clicks |-> f[k].total_clicks] ]

Stores(R, n) ==
    { MkStore(f) : f \in { g \in UNION { [1..m -> R] : m \in 0..n } : OrderedByCtr(g) } }

\* What load_ml_model returns: None, or a predictor campaign -> bid.
NoModel == [present |-> FALSE, predict |-> [c \in CampaignIds |-> Rat(0)]]
PredictedBids == {1234}
Predictors ==
    { [present |-> TRUE, predict |-> [c \in CampaignIds |-> Rat(b)]] : b \in PredictedBids }

NoEntry == [action_type |-> "none", resource_id |-> 0, details |-> "none", run |-> "none"]
NoLocals ==
    [campaign_id |-> 0, current_ctr |-> Rat(0), current_cpc |-> Rat(0),
     optimal_bid |-> Rat(0)]
NoResult == [statusCode |-> 0, body |-> "none", actions |-> <<>>]
Terminal == {"idle", "done"}
NoSinks == [sns |-> "none", cloudwatch |-> "none"]

HOff == [pc |-> "off", cpc |-> 0, ctr_low |-> 0, ctr_high |-> 0,
         bid_low |-> Rat(0), bid_high |-> Rat(0)]

\* The token rotator and the collector, when they are not the program run.
ROff == [versions |-> {}, current |-> 0, pending |-> 0, step |-> "off",
         tested |-> "none", status |-> "none", events |-> 0]
COff == [pc |-> "off", bucket |-> FALSE, campaigns |-> <<>>, successful_pulls |-> 0,
         failed_pulls |-> 0, pulls |-> <<>>, statusCode |-> 0]

(***************************************************************************)
(* get_performance_data: HAVING SUM(total_clicks) >= MIN_SAMPLE_SIZE.      *)
(***************************************************************************)
Eligible_all(r) == TRUE

Eligible(r) == r.total_clicks >= MIN_SAMPLE_SIZE

get_performance_data(table) == SelectSeq(table, Eligible)

\* if len(performance_df) == 0: return 200 'No data available'
NoData_never(d) == FALSE

NoData(d) == Len(d) = 0

(***************************************************************************)
(* The if / elif chain of optimize_creatives.                              *)
(***************************************************************************)
CreativeRule_winner_first(row) ==
    IF row.avg_ctr < MIN_CTR_THRESHOLD /\ row.total_clicks >= MIN_SAMPLE_SIZE
    THEN "low_ctr"
    ELSE IF row.avg_ctr > TOP_PERFORMER_THRESHOLD THEN "high_ctr"
    ELSE IF row.avg_cpc > MAX_CPC THEN "high_cpc"
    ELSE "none"

CreativeRule_no_winner(row) ==
    IF row.avg_ctr < MIN_CTR_THRESHOLD /\ row.total_clicks >= MIN_SAMPLE_SIZE
    THEN "low_ctr"
    ELSE IF row.avg_cpc > MAX_CPC THEN "high_cpc"
    ELSE "none"

CreativeRule_inclusive(row) ==
    IF row.avg_ctr <= MIN_CTR_THRESHOLD /\ row.total_clicks >= MIN_SAMPLE_SIZE
    THEN "low_ctr"
    ELSE IF row.avg_cpc >= MAX_CPC THEN "high_cpc"
    ELSE IF row.avg_ctr >= TOP_PERFORMER_THRESHOLD THEN "high_ctr"
    ELSE "none"

CreativeRule_skips_logged(row) ==
    IF \E k \in DOMAIN ledger :
          /\ ledger[k].action_type = "pause_creative"
          /\ ledger[k].resource_id = row.creative_id
    THEN "none"
    ELSE IF row.avg_ctr < MIN_CTR_THRESHOLD /\ row.total_clicks >= MIN_SAMPLE_SIZE
    THEN "low_ctr"
    ELSE IF row.avg_cpc > MAX_CPC THEN "high_cpc"
    ELSE IF row.avg_ctr > TOP_PERFORMER_THRESHOLD THEN "high_ctr"
    ELSE "none"

CreativeRule(row) ==
    IF row.avg_ctr < MIN_CTR_THRESHOLD /\ row.total_clicks >= MIN_SAMPLE_SIZE
    THEN "low_ctr"
    ELSE IF row.avg_cpc > MAX_CPC THEN "high_cpc"
    ELSE IF row.avg_ctr > TOP_PERFORMER_THRESHOLD THEN "high_ctr"
    ELSE "none"

(***************************************************************************)
(* groupby('campaign_id').agg(mean): the campaigns in ascending order,     *)
(* each with the mean of its rows' avg_ctr and avg_cpc.                    *)
(***************************************************************************)
RECURSIVE SortedSeq(_)
SortedSeq(S) ==
    IF S = {} THEN <<>>
    ELSE LET m == CHOOSE x \in S : \A y \in S : x <= y
         IN  <<m>> \o SortedSeq(S \ {m})

RECURSIVE SumOver(_, _, _)
SumOver(d, c, col) ==
    IF d = <<>> THEN 0
    ELSE (IF Head(d).campaign_id = c THEN Head(d)[col] ELSE 0) + SumOver(Tail(d), c, col)

RowsOf(d, c) == Len(SelectSeq(d, LAMBDA r : r.campaign_id = c))

Mean(d, c, col) == Norm(<<SumOver(d, c, col), RowsOf(d, c)>>)

campaign_performance(d) ==
    LET ids == SortedSeq({ d[k].campaign_id : k \in DOMAIN d })
    IN  [ k \in DOMAIN ids |->
            [campaign_id |-> ids[k],
             avg_ctr |-> Mean(d, ids[k], "avg_ctr"),
             avg_cpc |-> Mean(d, ids[k], "avg_cpc")] ]

\* abs(optimal_bid - current_cpc) >= BID_CHANGE_THRESHOLD
SignificantChange_any(optimal_bid, current_cpc) == TRUE

SignificantChange(optimal_bid, current_cpc) ==
    RLe(Rat(BID_CHANGE_THRESHOLD), RAbs(RSub(optimal_bid, current_cpc)))

(***************************************************************************)
(* Steps of one invocation i of lambda_handler.                            *)
(***************************************************************************)
Env == <<store, hx, rot, collector>>

\* The handler returns: the status code, the kind of body ("actions" is the
\* body with actions_taken, actions and performance_summary) and the action
\* list that body carries.
Return(i, status, body) ==
    /\ pc' = [pc EXCEPT ![i] = "done"]
    /\ result' = [result EXCEPT ![i] =
                      [statusCode |-> status, body |-> body,
                       actions |-> IF body = "actions" THEN actions[i] ELSE <<>>]]

\* get_linkedin_credentials; a raise is caught by the handler's except, and
\* the body of the 500 carries str(e).
GetCredentials(i) ==
    /\ pc[i] = "start"
    /\ \/ /\ pc' = [pc EXCEPT ![i] = "fetch"]
          /\ UNCHANGED result
       \/ Return(i, 500, "credentials_error")
    /\ UNCHANGED <<ledger, df, bid_model, idx, actions, calls, log_entry,
                   existing_logs, ret, loc, log_calls, log_failed, sinks, Env>>

\* get_performance_data(days=7) and the empty-frame return.
GetPerformanceData(i) ==
    /\ pc[i] = "fetch"
    /\ \/ /\ df' = [df EXCEPT ![i] = get_performance_data(store)]
          /\ IF NoData(df'[i])
             THEN Return(i, 200, "no_data")
             ELSE /\ pc' = [pc EXCEPT ![i] = "load_models"]
                  /\ UNCHANGED result
       \/ /\ Return(i, 500, "query_error")
          /\ UNCHANGED df
    /\ UNCHANGED <<ledger, bid_model, idx, actions, calls, log_entry,
                   existing_logs, ret, loc, log_calls, log_failed, sinks, Env>>

\* load_ml_model(BID_OPTIMIZER_MODEL_PATH): the artifact found in S3, or None
\* when there is none or the load raises.
LoadModels(i) ==
    /\ pc[i] = "load_models"
    /\ \E m \in {NoModel} \cup Predictors : bid_model' = [bid_model EXCEPT ![i] = m]
    /\ pc' = [pc EXCEPT ![i] = "creatives"]
    /\ idx' = [idx EXCEPT ![i] = 1]
    /\ UNCHANGED <<ledger, df, actions, calls, log_entry, existing_logs, ret,
                   loc, result, log_calls, log_failed, sinks, Env>>

\* requests.patch inside pause_creative / update_campaign_bid: the call is
\* recorded with the answer the function returns.
PlatformCall(i, op, id, bid, ok) ==
    calls' = [calls EXCEPT ![i] =
                 Append(@, [op |-> op, id |-> id, new_bid |-> bid, ok |-> ok])]

\* The loop moves to its next row without an action.
NextRow(i) ==
    /\ idx' = [idx EXCEPT ![i] = @ + 1]
    /\ UNCHANGED <<pc, actions, log_entry, ret, log_calls, result>>

\* The except branch of pause_creative / update_campaign_bid returns False
\* and the caller's if falls through to the next row.
CallFailed_aborts(i) ==
    /\ Return(i, 500, "error")
    /\ UNCHANGED <<idx, actions, log_entry, ret, log_calls>>

CallFailed_retries(i) ==
    UNCHANGED <<pc, idx, actions, log_entry, ret, log_calls, result>>

CallFailed_logs(i) ==
    LET c == calls'[i][Len(calls'[i])]
    IN  /\ log_entry' = [log_entry EXCEPT ![i] =
                            [action_type |-> IF c.op = "pause" THEN "pause_creative"
                                             ELSE "adjust_bid",
                             resource_id |-> c.id, details |-> "failed", run |-> i]]
        /\ log_calls' = [log_calls EXCEPT ![i] = @ + 1]
        /\ ret' = [ret EXCEPT ![i] = pc[i]]
        /\ pc' = [pc EXCEPT ![i] = "log_get"]
        /\ UNCHANGED <<idx, actions, result>>

CallFailed(i) == NextRow(i)

\* actions.append(action); all_actions.extend keeps the order, the creative
\* actions before the bid actions.
append_front(list, action) == <<action>> \o list

append_nothing(list, action) == list

append(list, action) == Append(list, action)

\* actions.append(action) followed by the call of log_action.
Emit(i, action, entry, loop) ==
    /\ actions' = [actions EXCEPT ![i] = append(@, action)]
    /\ log_entry' = [log_entry EXCEPT ![i] = entry]
    /\ log_calls' = [log_calls EXCEPT ![i] = @ + 1]
    /\ ret' = [ret EXCEPT ![i] = loop]
    /\ pc' = [pc EXCEPT ![i] = "log_get"]
    /\ UNCHANGED <<idx, result>>

CreativeAction(kind, row, rule) ==
    [action |-> kind, creative_id |-> row.creative_id,
     campaign_id |-> row.campaign_id, reason |-> rule,
     old_bid |-> Rat(0), new_bid |-> Rat(0)]

Entry(i, type, id, details) ==
    [action_type |-> type, resource_id |-> id, details |-> details, run |-> i]

\* One iteration of the loop of optimize_creatives.
EvaluateCreative(i) ==
    /\ pc[i] = "creatives"
    /\ idx[i] <= Len(df[i])
    /\ LET row == df[i][idx[i]]
           rule == CreativeRule(row)
       IN  IF rule \in {"low_ctr", "high_cpc"}
           THEN \E ok \in BOOLEAN :
                   /\ PlatformCall(i, "pause", row.creative_id, Rat(0), ok)
                   /\ IF ok
                      THEN Emit(i, CreativeAction("paused", row, rule),
                                Entry(i, "pause_creative", row.creative_id, rule),
                                "creatives")
                      ELSE CallFailed(i)
           ELSE IF rule = "high_ctr"
           THEN /\ Emit(i, CreativeAction("top_performer", row, rule),
                        Entry(i, "identify_winner", row.creative_id, rule),
                        "creatives")
                /\ UNCHANGED calls
           ELSE /\ NextRow(i)
                /\ UNCHANGED calls
    /\ UNCHANGED <<ledger, df, bid_model, existing_logs, loc, log_failed, sinks, Env>>

\* optimize_creatives returns; optimize_bids starts on the same frame.
EndCreatives(i) ==
    /\ pc[i] = "creatives"
    /\ idx[i] > Len(df[i])
    /\ pc' = [pc EXCEPT ![i] = "bids"]
    /\ idx' = [idx EXCEPT ![i] = 1]
    /\ UNCHANGED <<ledger, df, bid_model, actions, calls, log_entry,
                   existing_logs, ret, loc, result, log_calls, log_failed, sinks, Env>>

\* if bid_model: ... else: ...  (both branches call the heuristic)
optimal_bid_of(model, campaign_id, current_ctr, current_cpc) ==
    IF model.present
    THEN calculate_optimal_bid_heuristic(current_ctr, current_cpc)
    ELSE calculate_optimal_bid_heuristic(current_ctr, current_cpc)

BidAction(row, optimal_bid) ==
    [action |-> "bid_adjustment", creative_id |-> 0,
     campaign_id |-> row.campaign_id, reason |-> "bid_optimization",
     old_bid |-> row.avg_cpc, new_bid |-> optimal_bid]

\* One iteration of the loop of optimize_bids.
EvaluateCampaign(i) ==
    /\ pc[i] = "bids"
    /\ idx[i] <= Len(campaign_performance(df[i]))
    /\ LET row == campaign_performance(df[i])[idx[i]]
           optimal_bid == optimal_bid_of(bid_model[i], row.campaign_id,
                                         row.avg_ctr, row.avg_cpc)
       IN  /\ loc' = [loc EXCEPT ![i] =
                         [campaign_id |-> row.campaign_id,
                          current_ctr |-> row.avg_ctr,
                          current_cpc |-> row.avg_cpc,
                          optimal_bid |-> optimal_bid]]
           /\ IF SignificantChange(optimal_bid, row.avg_cpc)
              THEN \E ok \in BOOLEAN :
                      /\ PlatformCall(i, "update_bid", row.campaign_id, optimal_bid, ok)
                      /\ IF ok
                         THEN Emit(i, BidAction(row, optimal_bid),
                                   Entry(i, "adjust_bid", row.campaign_id,
                                         "bid_optimization"),
                                   "bids")
                         ELSE CallFailed(i)
              ELSE /\ NextRow(i)
                   /\ UNCHANGED calls
    /\ UNCHANGED <<ledger, df, bid_model, existing_logs, log_failed, sinks, Env>>

EndBids(i) ==
    /\ pc[i] = "bids"
    /\ idx[i] > Len(campaign_performance(df[i]))
    /\ pc' = [pc EXCEPT ![i] = "report"]
    /\ UNCHANGED <<ledger, df, bid_model, idx, actions, calls, log_entry,
                   existing_logs, ret, loc, result, log_calls, log_failed, sinks, Env>>

\* log_action leaves: its locals go out of scope, the loop goes on.
LogReturn(i) ==
    /\ pc' = [pc EXCEPT ![i] = ret[i]]
    /\ idx' = [idx EXCEPT ![i] = @ + 1]
    /\ log_entry' = [log_entry EXCEPT ![i] = NoEntry]
    /\ existing_logs' = [existing_logs EXCEPT ![i] = <<>>]

\* s3.get_object of the day's log: the content ('' on NoSuchKey), or a
\* raise that the outer except of log_action swallows.
LogGet(i) ==
    /\ pc[i] = "log_get"
    /\ \/ /\ existing_logs' = [existing_logs EXCEPT ![i] = ledger]
          /\ pc' = [pc EXCEPT ![i] = "log_put"]
          /\ UNCHANGED <<idx, log_entry, log_failed>>
       \/ /\ LogReturn(i)
          /\ log_failed' = [log_failed EXCEPT ![i] = @ + 1]
    /\ UNCHANGED <<ledger, df, bid_model, actions, calls, ret, loc, result,
                   log_calls, sinks, Env>>

\* new_log = existing_logs + json.dumps(log_entry) + '\n'
new_log_overwrites(existing, entry) == <<entry>>

new_log(existing, entry) == Append(existing, entry)

\* s3.put_object of new_log, or a swallowed raise.
LogPut(i) ==
    /\ pc[i] = "log_put"
    /\ \/ /\ ledger' = new_log(existing_logs[i], log_entry[i])
          /\ UNCHANGED log_failed
       \/ /\ log_failed' = [log_failed EXCEPT ![i] = @ + 1]
          /\ UNCHANGED ledger
    /\ LogReturn(i)
    /\ UNCHANGED <<df, bid_model, actions, calls, ret, loc, result, log_calls,
                   sinks, Env>>

\* The except branch around sns.publish / cloudwatch.put_metric_data prints
\* and the function returns normally.
SinkFailed_aborts(i, next) == Return(i, 500, "error")

SinkFailed(i, next) ==
    /\ pc' = [pc EXCEPT ![i] = next]
    /\ UNCHANGED result

\* The performance summary and send_daily_report: sns.publish succeeds or
\* raises.
SendDailyReport(i) ==
    /\ pc[i] = "report"
    /\ \E ok \in BOOLEAN :
          /\ sinks' = [sinks EXCEPT ![i].sns = IF ok THEN "sent" ELSE "failed"]
          /\ IF ok
             THEN pc' = [pc EXCEPT ![i] = "metrics"] /\ UNCHANGED result
             ELSE SinkFailed(i, "metrics")
    /\ UNCHANGED <<ledger, df, bid_model, idx, actions, calls, log_entry,
                   existing_logs, ret, loc, log_calls, log_failed, Env>>

\* send_cloudwatch_metrics: every put_metric_data succeeds, or some raise.
SendCloudwatchMetrics(i) ==
    /\ pc[i] = "metrics"
    /\ \E ok \in BOOLEAN :
          /\ sinks' = [sinks EXCEPT ![i].cloudwatch = IF ok THEN "sent" ELSE "failed"]
          /\ IF ok
             THEN pc' = [pc EXCEPT ![i] = "return"] /\ UNCHANGED result
             ELSE SinkFailed(i, "return")
    /\ UNCHANGED <<ledger, df, bid_model, idx, actions, calls, log_entry,
                   existing_logs, ret, loc, log_calls, log_failed, Env>>

\* return 200 with actions_taken, actions and performance_summary.
Finish(i) ==
    /\ pc[i] = "return"
    /\ Return(i, 200, "actions")
    /\ UNCHANGED <<ledger, df, bid_model, idx, actions, calls, log_entry,
                   existing_logs, ret, loc, log_calls, log_failed, sinks, Env>>

Run(i) ==
    \/ GetCredentials(i)
    \/ GetPerformanceData(i)
    \/ LoadModels(i)
    \/ EvaluateCreative(i)
    \/ EndCreatives(i)
    \/ EvaluateCampaign(i)
    \/ EndBids(i)
    \/ LogGet(i)
    \/ LogPut(i)
    \/ SendDailyReport(i)
    \/ SendCloudwatchMetrics(i)
    \/ Finish(i)

\* A later invocation on the same snapshot, once the earlier one has returned.
Reinvoke ==
    /\ pc["A"] = "done"
    /\ pc["B"] = "idle"
    /\ pc' = [pc EXCEPT !["B"] = "start"]
    /\ UNCHANGED <<ledger, df, bid_model, idx, actions, calls, log_entry,
                   existing_logs, ret, loc, result, log_calls, log_failed, sinks, Env>>

(***************************************************************************)
(* The bid heuristic applied to a grid of inputs.                          *)
(***************************************************************************)
CtrGrid == { CtrStep * k : k \in 0..MaxCtrK }
CpcGrid == { CpcStep * k : k \in 0..MaxCpcK }

EvaluateHeuristic ==
    /\ hx.pc = "input"
    /\ hx' = [hx EXCEPT
                 !.pc = "evaluated",
                 !.bid_low = calculate_optimal_bid_heuristic(Rat(hx.ctr_low), Rat(hx.cpc)),
                 !.bid_high = calculate_optimal_bid_heuristic(Rat(hx.ctr_high), Rat(hx.cpc))]
    /\ UNCHANGED <<store, ledger, pc, df, bid_model, idx, actions,
                   calls, log_entry, existing_logs, ret, loc, result, log_calls,
                   log_failed, sinks, rot, collector>>

(***************************************************************************)
(* Specifications.                                                         *)
(***************************************************************************)
InitLocals ==
    /\ ledger = <<>>
    /\ df = [i \in Invocations |-> <<>>]
    /\ bid_model = [i \in Invocations |-> NoModel]
    /\ idx = [i \in Invocations |-> 0]
    /\ actions = [i \in Invocations |-> <<>>]
    /\ calls = [i \in Invocations |-> <<>>]
    /\ log_entry = [i \in Invocations |-> NoEntry]
    /\ existing_logs = [i \in Invocations |-> <<>>]
    /\ ret = [i \in Invocations |-> "none"]
    /\ loc = [i \in Invocations |-> NoLocals]
    /\ result = [i \in Invocations |-> NoResult]
    /\ log_calls = [i \in Invocations |-> 0]
    /\ log_failed = [i \in Invocations |-> 0]
    /\ sinks = [i \in Invocations |-> NoSinks]

\* One invocation on a snapshot of up to MaxRecords rows.
InitRun ==
    /\ store \in Stores(TableRows, MaxRecords)
    /\ pc = [i \in Invocations |-> IF i = "A" THEN "start" ELSE "idle"]
    /\ hx = HOff
    /\ rot = ROff
    /\ collector = COff
    /\ InitLocals

\* The heuristic on one cpc and two CTRs of the grid.
InitHeuristic ==
    /\ store = <<>>
    /\ pc = [i \in Invocations |-> "idle"]
    /\ \E c \in CpcGrid, lo \in CtrGrid, hi \in CtrGrid :
          /\ lo <= hi
          /\ hx = [pc |-> "input", cpc |-> c, ctr_low |-> lo, ctr_high |-> hi,
                   bid_low |-> Rat(0), bid_high |-> Rat(0)]
    /\ rot = ROff
    /\ collector = COff
    /\ InitLocals

Init == InitRun \/ InitHeuristic

Next == (\E i \in Invocations : Run(i)) \/ EvaluateHeuristic

Spec == Init /\ [][Next]_vars

InitSmall ==
    /\ store \in Stores(SmallTableRows, MaxSmallRecords)
    /\ hx = HOff
    /\ rot = ROff
    /\ collector = COff
    /\ InitLocals

\* Two invocations on one snapshot, the second after the first has returned.
InitRerun ==
    /\ InitSmall
    /\ pc = [i \in Invocations |-> IF i = "A" THEN "start" ELSE "idle"]

NextRerun == (\E i \in Invocations : Run(i)) \/ Reinvoke

SpecRerun == InitRerun /\ [][NextRerun]_vars

\* Two invocations running at the same time, on the same day's log.
InitConcurrent ==
    /\ InitSmall
    /\ pc = [i \in Invocations |-> "start"]

NextConcurrent == \E i \in Invocations : Run(i)

SpecConcurrent == InitConcurrent /\ [][NextConcurrent]_vars

(***************************************************************************)
(* The token rotation Lambda (src/lambda/token_rotator/handler.py).  The   *)
(* secret holds versions 1..MaxVersion; the staging labels AWSCURRENT and  *)
(* AWSPENDING each sit on one version (0: on none).                        *)
(***************************************************************************)
RotationSteps == {"createSecret", "setSecret", "testSecret", "finishSecret", "deleteSecret"}
VersionIds == 1..MaxVersion

\* secrets.put_secret_value(..., VersionStages=['AWSPENDING'], ClientRequestToken=token)
put_secret_value_as_current(r, token) ==
    [r EXCEPT !.versions = @ \cup {token}, !.pending = token, !.current = token]

put_secret_value(r, token) ==
    [r EXCEPT !.versions = @ \cup {token}, !.pending = token]

\* secrets.update_secret_version_stage(VersionStage='AWSCURRENT', MoveToVersionId=token, ...)
update_secret_version_stage(r, token) == [r EXCEPT !.current = token]

\* The handler's event starts: step = event.get('Step').
Begin(r, step) ==
    [r EXCEPT !.step = step, !.tested = "none", !.events = @ + 1]

\* return {'statusCode': 200, ...}
Succeeds(r) == [r EXCEPT !.status = "success"]

\* The except branch: send_notification("FAILED", ...) and raise.
Raises(r) == [r EXCEPT !.status = "raised"]

\* step == 'createSecret': get_current_token, refresh_linkedin_token and
\* put_secret_value, each of which may raise.
CreateSecret(r, token, ok) ==
    IF ok THEN Succeeds(put_secret_value(r, token)) ELSE Raises(r)

\* step == 'testSecret': get_secret_value of the AWSPENDING version with
\* VersionId = token, then test_token.
TestSecret(r, token, ok) ==
    IF r.pending # token THEN Raises(r)
    ELSE IF ok THEN Succeeds([r EXCEPT !.tested = "passed"])
    ELSE Raises([r EXCEPT !.tested = "failed"])

\* step == 'finishSecret': update_secret_version_stage raises when the
\* version does not exist or AWSCURRENT is not on RemoveFromVersionId.
FinishSecret(r, token, old, ok) ==
    IF ok /\ token \in r.versions /\ old = r.current
    THEN Succeeds(update_secret_version_stage(r, token))
    ELSE Raises(r)

\* One invocation of the rotator's lambda_handler.
Rotate ==
    /\ rot.step # "off"
    /\ rot.events < MaxRotationEvents
    /\ \E step \in RotationSteps, token \in VersionIds, old \in VersionIds, ok \in BOOLEAN :
          LET r == Begin(rot, step)
          IN  rot' = CASE step = "createSecret" -> CreateSecret(r, token, ok)
                       [] step = "setSecret" -> Succeeds(r)
                       [] step = "testSecret" -> TestSecret(r, token, ok)
                       [] step = "finishSecret" -> FinishSecret(r, token, old, ok)
                       [] OTHER -> Raises(r)
    /\ UNCHANGED <<store, ledger, pc, df, bid_model, idx, actions, calls,
                   log_entry, existing_logs, ret, loc, result, log_calls,
                   log_failed, sinks, hx, collector>>

InitRotation ==
    /\ store = <<>>
    /\ pc = [i \in Invocations |-> "idle"]
    /\ hx = HOff
    /\ collector = COff
    /\ rot = [versions |-> {1}, current |-> 1, pending |-> 0, step |-> "none",
              tested |-> "none", status |-> "none", events |-> 0]
    /\ InitLocals

SpecRotation == InitRotation /\ [][Rotate]_vars

(***************************************************************************)
(* The collector Lambda (src/lambda/collector/handler.py).                 *)
(***************************************************************************)
Pull(analytics, details, saved) ==
    [analytics |-> analytics, details |-> details, saved |-> saved]

\* One iteration of the loop over campaigns_to_process: analytics and details
\* tell whether pull_creative_analytics / pull_campaign_details returned
\* data, save_ok what save_to_s3 returns.
count_pull_no_continue(c, analytics, details, save_ok) ==
    LET missed == IF ~analytics /\ ~details THEN 1 ELSE 0
    IN  IF save_ok
        THEN [c EXCEPT !.failed_pulls = @ + missed,
                       !.successful_pulls = @ + 1,
                       !.pulls = Append(@, Pull(analytics, details, TRUE))]
        ELSE [c EXCEPT !.failed_pulls = @ + missed + 1,
                       !.pulls = Append(@, Pull(analytics, details, FALSE))]

count_pull(c, analytics, details, save_ok) ==
    IF ~analytics /\ ~details
    THEN [c EXCEPT !.failed_pulls = @ + 1,
                   !.pulls = Append(@, Pull(analytics, details, FALSE))]
    ELSE IF save_ok
    THEN [c EXCEPT !.successful_pulls = @ + 1,
                   !.pulls = Append(@, Pull(analytics, details, TRUE))]
    ELSE [c EXCEPT !.failed_pulls = @ + 1,
                   !.pulls = Append(@, Pull(analytics, details, FALSE))]

CollectorOthers ==
    UNCHANGED <<store, ledger, pc, df, bid_model, idx, actions, calls,
                log_entry, existing_logs, ret, loc, result, log_calls,
                log_failed, sinks, hx, rot>>

\* The environment check, get_linkedin_credentials and the empty campaign
\* list.
CollectorStart ==
    /\ collector.pc = "start"
    /\ \/ /\ ~collector.bucket
          /\ collector' = [collector EXCEPT !.pc = "done", !.statusCode = 500]
       \/ /\ collector.bucket
          /\ \E credentials \in BOOLEAN :
                collector' =
                    IF ~credentials
                    THEN [collector EXCEPT !.pc = "done", !.statusCode = 500]
                    ELSE IF collector.campaigns = <<>>
                    THEN [collector EXCEPT !.pc = "done", !.statusCode = 200]
                    ELSE [collector EXCEPT !.pc = "loop"]
    /\ CollectorOthers

\* One campaign of the loop; an exception that escapes the iteration ends
\* the handler in its except branch.
ProcessCampaign ==
    /\ collector.pc = "loop"
    /\ Len(collector.pulls) < Len(collector.campaigns)
    /\ \/ \E analytics \in BOOLEAN, details \in BOOLEAN, save_ok \in BOOLEAN :
             collector' = count_pull(collector, analytics, details, save_ok)
       \/ collector' = [collector EXCEPT !.pc = "done", !.statusCode = 500]
    /\ CollectorOthers

\* After the loop: send_cloudwatch_metrics, which swallows its exceptions,
\* and the 200 return.
CollectorFinish ==
    /\ collector.pc = "loop"
    /\ Len(collector.pulls) = Len(collector.campaigns)
    /\ collector' = [collector EXCEPT !.pc = "done", !.statusCode = 200]
    /\ CollectorOthers

InitCollector ==
    /\ store = <<>>
    /\ pc = [i \in Invocations |-> "idle"]
    /\ hx = HOff
    /\ rot = ROff
    /\ \E n \in 0..MaxCampaigns, b \in BOOLEAN :
          \E ids \in [1..n -> CampaignIds] :
             collector = [pc |-> "start", bucket |-> b, campaigns |-> ids,
                          successful_pulls |-> 0, failed_pulls |-> 0,
                          pulls |-> <<>>, statusCode |-> 0]
    /\ InitLocals

NextCollector == CollectorStart \/ ProcessCampaign \/ CollectorFinish

SpecCollector == InitCollector /\ [][NextCollector]_vars

(***************************************************************************)
(* Properties.                                                             *)
(***************************************************************************)
Returned(i) == pc[i] = "done" /\ result[i].body = "actions"

ActionsFor(i, creative_id) ==
    SelectSeq(actions[i], LAMBDA a : a.creative_id = creative_id)

Range(s) == { s[k] : k \in DOMAIN s }

\* C1: every eligible record with avg_ctr < min_ctr has, when the run
\* returns, exactly one action referencing its creative, and that action is
\* a pause, whatever the platform answered to the pause call.
C1_ExactlyOnePause ==
    \A i \in Invocations :
        Returned(i) =>
            \A k \in DOMAIN store :
                (store[k].avg_ctr < MIN_CTR_THRESHOLD
                    /\ store[k].total_clicks >= MIN_SAMPLE_SIZE)
                => LET mine == ActionsFor(i, store[k].creative_id)
                   IN  Len(mine) = 1 /\ mine[1].action = "paused"

\* C2: a record with total_clicks < min_sample_size never produces an
\* action, a platform call or a ledger entry, and a campaign that holds only
\* such records gets no bid update, whatever their avg_ctr and avg_cpc.
SubThreshold(r) == r.total_clicks < MIN_SAMPLE_SIZE

CreativeUntouched(i, creative_id) ==
    /\ \A a \in Range(actions[i]) : a.creative_id # creative_id
    /\ \A c \in Range(calls[i]) : ~(c.op = "pause" /\ c.id = creative_id)
    /\ \A e \in Range(ledger) \cup Range(existing_logs[i]) \cup {log_entry[i]} :
          ~(e.action_type \in {"pause_creative", "identify_winner"}
              /\ e.resource_id = creative_id)

CampaignUntouched(i, campaign_id) ==
    /\ \A a \in Range(actions[i]) :
          ~(a.action = "bid_adjustment" /\ a.campaign_id = campaign_id)
    /\ \A c \in Range(calls[i]) : ~(c.op = "update_bid" /\ c.id = campaign_id)
    /\ \A e \in Range(ledger) \cup Range(existing_logs[i]) \cup {log_entry[i]} :
          ~(e.action_type = "adjust_bid" /\ e.resource_id = campaign_id)

C2_SubThresholdNeverActs ==
    \A i \in Invocations :
        /\ \A r \in Range(store) : SubThreshold(r) => CreativeUntouched(i, r.creative_id)
        /\ \A c \in CampaignIds :
              (\A r \in Range(store) : r.campaign_id = c => SubThreshold(r))
              => CampaignUntouched(i, c)

C2_Witness ==
    /\ Returned("A")
    /\ actions["A"] # <<>>
    /\ \E r \in Range(store) : SubThreshold(r) /\ r.avg_cpc > MAX_CPC
    /\ \E r \in Range(store) : SubThreshold(r) /\ r.avg_ctr > TOP_PERFORMER_THRESHOLD

\* C3: when the run returns, a record below min_ctr and above max_cpc has a
\* pause action with the low-CTR reason and none with the high-CPC reason.
C3_LowCtrReasonWins ==
    \A i \in Invocations :
        Returned(i) =>
            \A r \in Range(df[i]) :
                (r.avg_ctr < MIN_CTR_THRESHOLD /\ r.avg_cpc > MAX_CPC)
                => /\ \E a \in Range(actions[i]) :
                         /\ a.creative_id = r.creative_id
                         /\ a.action = "paused"
                         /\ a.reason = "low_ctr"
                   /\ \A a \in Range(actions[i]) :
                         a.creative_id = r.creative_id => a.reason # "high_cpc"

\* C4: whenever no log_action call is in progress, the day's log holds one
\* entry for every log_action call whose storage calls succeeded, under every
\* interleaving of the invocations.
Logging(i) == pc[i] \in {"log_get", "log_put"}

RECURSIVE Total(_, _)
Total(f, S) ==
    IF S = {} THEN 0
    ELSE LET x == CHOOSE y \in S : TRUE IN f[x] + Total(f, S \ {x})

C4_NoEntryLost ==
    (\A i \in Invocations : ~Logging(i))
    => Len(ledger) = Total(log_calls, Invocations) - Total(log_failed, Invocations)

\* C5: a failed platform call does not stop the run: no run ends in an error
\* once it has called the platform, a run that has not returned always has a
\* next step and every step moves it forward in the handler, and when it
\* returns every row that a pause rule selects and every campaign with a
\* significant bid change has had its call attempted.
Called(i, op, id) == \E c \in Range(calls[i]) : c.op = op /\ c.id = id

\* Where invocation i stands: the phase of the handler, the row of the loop
\* and the step inside log_action.
PhaseRank(p) ==
    CASE p = "idle" -> 0
      [] p = "start" -> 1
      [] p = "fetch" -> 2
      [] p = "load_models" -> 3
      [] p = "creatives" -> 4
      [] p = "bids" -> 5
      [] p = "report" -> 6
      [] p = "metrics" -> 7
      [] p = "return" -> 8
      [] p = "done" -> 9

Position(p, r, n) ==
    IF p = "log_get" THEN <<PhaseRank(r), n, 1>>
    ELSE IF p = "log_put" THEN <<PhaseRank(r), n, 2>>
    ELSE <<PhaseRank(p), n, 0>>

Before(a, b) ==
    \/ a[1] < b[1]
    \/ a[1] = b[1] /\ a[2] < b[2]
    \/ a[1] = b[1] /\ a[2] = b[2] /\ a[3] < b[3]

\* The guards of the steps of Run(i); each step is enabled whenever its
\* guard holds.
HasNextStep(i) ==
    \/ pc[i] \in {"start", "fetch", "load_models", "log_get", "log_put", "report",
                  "metrics", "return"}
    \/ pc[i] = "creatives" /\ idx[i] <= Len(df[i])
    \/ pc[i] = "creatives" /\ idx[i] > Len(df[i])
    \/ pc[i] = "bids" /\ idx[i] <= Len(campaign_performance(df[i]))
    \/ pc[i] = "bids" /\ idx[i] > Len(campaign_performance(df[i]))

AttemptsAll(i) ==
    /\ \A r \in Range(df[i]) :
          CreativeRule(r) \in {"low_ctr", "high_cpc"}
          => Called(i, "pause", r.creative_id)
    /\ \A r \in Range(campaign_performance(df[i])) :
          SignificantChange(
              calculate_optimal_bid_heuristic(r.avg_ctr, r.avg_cpc), r.avg_cpc)
          => Called(i, "update_bid", r.campaign_id)

C5_FailureDoesNotStopRun ==
    /\ [](\A i \in Invocations :
             /\ pc[i] \notin Terminal => HasNextStep(i)
             /\ (pc[i] = "done" /\ calls[i] # <<>>) => Returned(i)
             /\ Returned(i) => AttemptsAll(i))
    /\ [][\A i \in Invocations :
             \/ <<pc[i], ret[i], idx[i]>>' = <<pc[i], ret[i], idx[i]>>
             \/ Before(Position(pc[i], ret[i], idx[i]),
                       Position(pc'[i], ret'[i], idx'[i]))]_vars

C5_Witness ==
    /\ Returned("A")
    /\ \E k \in DOMAIN calls["A"] :
          /\ ~calls["A"][k].ok
          /\ calls["A"][k].op = "pause"
          /\ \E m \in DOMAIN calls["A"] : m > k /\ calls["A"][m].op = "pause"
          /\ \E m \in DOMAIN calls["A"] : m > k /\ calls["A"][m].op = "update_bid"

\* C6: two runs on the same snapshot return the same action list, also when
\* the platform answers their calls differently.
C6_SameActionsOnRerun ==
    (Returned("A") /\ Returned("B")) => actions["A"] = actions["B"]

\* C7 as stated: every result of the heuristic lies within [1.0, 15.0].
InBidRange(bid) == RLe(Rat(BID_FLOOR), bid) /\ RLe(bid, Rat(BID_CEILING))

C7_AlwaysInRange ==
    hx.pc = "evaluated" => InBidRange(hx.bid_low) /\ InBidRange(hx.bid_high)

\* C7 amended: for current_ctr > 0 the result lies within [1.0, 15.0]; for
\* current_ctr = 0 the result is current_cpc unchanged.
HeuristicRange(ctr, cpc, bid) ==
    IF ctr[1] = 0 THEN bid = cpc ELSE InBidRange(bid)

C7_InRangeForPositiveCtr ==
    /\ hx.pc = "evaluated" =>
          /\ HeuristicRange(Rat(hx.ctr_low), Rat(hx.cpc), hx.bid_low)
          /\ HeuristicRange(Rat(hx.ctr_high), Rat(hx.cpc), hx.bid_high)
    /\ \A i \in Invocations :
          loc[i].campaign_id # 0 =>
              HeuristicRange(loc[i].current_ctr, loc[i].current_cpc, loc[i].optimal_bid)

C7_Witness ==
    /\ hx.pc = "evaluated"
    /\ hx.ctr_low > 0
    /\ hx.ctr_high > hx.ctr_low
    /\ hx.cpc > BID_CEILING
    /\ hx.bid_low = Rat(BID_CEILING)
    /\ RLt(hx.bid_high, Rat(BID_CEILING))

\* C8: for a fixed current_cpc and 0 < ctr_low <= ctr_high, the bid for
\* ctr_low is at least the bid for ctr_high.
C8_Monotonic ==
    (hx.pc = "evaluated" /\ hx.ctr_low > 0) => RLe(hx.bid_high, hx.bid_low)

C8_Witness ==
    /\ hx.pc = "evaluated"
    /\ 0 < hx.ctr_low
    /\ hx.ctr_low < hx.ctr_high
    /\ RLt(hx.bid_high, hx.bid_low)

\* The reference of C9: clamp(cpc * clamp(target / ctr, lo, hi), floor,
\* ceiling) rounded to two decimals.
Clamp(x, lo, hi) == RMax(lo, RMin(hi, x))

ReferenceBid(ctr, cpc, lo, hi) ==
    Round2(Clamp(RMul(cpc, Clamp(RDiv(Rat(TARGET_CTR), ctr), lo, hi)),
                 Rat(BID_FLOOR), Rat(BID_CEILING)))

MatchesReference(ctr, cpc, bid, lo, hi) ==
    ctr[1] > 0 => bid = ReferenceBid(ctr, cpc, lo, hi)

\* The example: a campaign at current_ctr = 1.0 and current_cpc = 4.0 gets a
\* bid update to `bid`, and the adjustment is in the action list once the
\* platform has accepted it.
ExampleAdjusted(i, bid) ==
    (loc[i].current_ctr = Rat(100) /\ loc[i].current_cpc = Rat(400))
    => /\ loc[i].optimal_bid = Rat(bid)
       /\ \E c \in Range(calls[i]) :
             /\ c.op = "update_bid"
             /\ c.id = loc[i].campaign_id
             /\ c.new_bid = Rat(bid)
             /\ c.ok => \E a \in Range(actions[i]) :
                           /\ a.action = "bid_adjustment"
                           /\ a.campaign_id = loc[i].campaign_id
                           /\ a.old_bid = Rat(400)
                           /\ a.new_bid = Rat(bid)

\* C9 as stated: the ratio is clamped to [0.5, 2.0] and the example yields 8.0.
C9_RatioClampHalfToDouble ==
    /\ hx.pc = "evaluated" =>
          /\ MatchesReference(Rat(hx.ctr_low), Rat(hx.cpc), hx.bid_low, <<1, 2>>, <<2, 1>>)
          /\ MatchesReference(Rat(hx.ctr_high), Rat(hx.cpc), hx.bid_high, <<1, 2>>, <<2, 1>>)
    /\ \A i \in Invocations :
          /\ MatchesReference(loc[i].current_ctr, loc[i].current_cpc,
                              loc[i].optimal_bid, <<1, 2>>, <<2, 1>>)
          /\ ExampleAdjusted(i, 800)

\* C9 amended: the ratio is clamped to [0.7, 1.5]; the example yields 6.0, the
\* update from 4.0 to 6.0 is requested and, once accepted, emitted.
C9_RatioClamp ==
    /\ hx.pc = "evaluated" =>
          /\ MatchesReference(Rat(hx.ctr_low), Rat(hx.cpc), hx.bid_low, <<7, 10>>, <<3, 2>>)
          /\ MatchesReference(Rat(hx.ctr_high), Rat(hx.cpc), hx.bid_high, <<7, 10>>, <<3, 2>>)
    /\ \A i \in Invocations :
          /\ MatchesReference(loc[i].current_ctr, loc[i].current_cpc,
                              loc[i].optimal_bid, <<7, 10>>, <<3, 2>>)
          /\ ExampleAdjusted(i, 600)

C9_Witness ==
    /\ loc["A"].current_ctr = Rat(100)
    /\ loc["A"].current_cpc = Rat(400)
    /\ \E a \in Range(actions["A"]) :
          a.action = "bid_adjustment" /\ a.old_bid = Rat(400) /\ a.new_bid = Rat(600)

\* C10: the bid computed for a campaign is the predictor's value when a
\* predictor is loaded, and the heuristic's only when none is.
C10_PredictorSupersedes ==
    \A i \in Invocations :
        loc[i].campaign_id # 0 =>
            loc[i].optimal_bid =
                IF bid_model[i].present
                THEN bid_model[i].predict[loc[i].campaign_id]
                ELSE calculate_optimal_bid_heuristic(loc[i].current_ctr,
                                                     loc[i].current_cpc)

\* C11: a campaign whose new bid differs from its current_cpc by less than
\* bid_change_threshold (the current_ctr = 0 case included, where the new bid is
\* current_cpc) gets no bid-update call, no bid_adjustment action and no ledger
\* entry; every bid-update call and every bid_adjustment action carries a bid
\* at least bid_change_threshold away from the campaign's current_cpc.
WorthCommitting(new_bid, current_cpc) ==
    LET delta == RSub(new_bid, current_cpc)
    IN  Rat(BID_CHANGE_THRESHOLD)[1] * RAbs(delta)[2] <= RAbs(delta)[1]

C11_OnlySignificantChanges ==
    \A i \in Invocations :
        \A r \in Range(campaign_performance(df[i])) :
            LET new_bid == calculate_optimal_bid_heuristic(r.avg_ctr, r.avg_cpc)
            IN  /\ r.avg_ctr[1] = 0 => new_bid = r.avg_cpc
                /\ ~WorthCommitting(new_bid, r.avg_cpc)
                      => CampaignUntouched(i, r.campaign_id)
                /\ \A c \in Range(calls[i]) :
                      (c.op = "update_bid" /\ c.id = r.campaign_id)
                      => WorthCommitting(c.new_bid, r.avg_cpc)
                /\ \A a \in Range(actions[i]) :
                      (a.action = "bid_adjustment" /\ a.campaign_id = r.campaign_id)
                      => WorthCommitting(a.new_bid, a.old_bid) /\ a.old_bid = r.avg_cpc

C11_Witness ==
    /\ Returned("A")
    /\ \E r \in Range(campaign_performance(df["A"])) :
          r.avg_ctr[1] = 0 /\ CampaignUntouched("A", r.campaign_id)
    /\ \E a \in Range(actions["A"]) : a.action = "bid_adjustment"

\* C12: every run that returns, whatever the credential fetch, the metrics
\* query and the platform calls did, returns status 200 with the body that
\* carries the performance summary.
C12_AlwaysSummary ==
    \A i \in Invocations :
        pc[i] = "done" => result[i].statusCode = 200 /\ result[i].body = "actions"

\* C13: once the metrics query has answered with zero eligible records the
\* run has returned status 200 with the no-data body, its action list is
\* empty, it has called neither the platform nor the sinks, and nothing was
\* written to the ledger.
QueryAnswered(i) ==
    /\ pc[i] \notin {"idle", "start", "fetch"}
    /\ result[i].body \notin {"credentials_error", "query_error"}

NoneEligible == \A r \in Range(store) : r.total_clicks < MIN_SAMPLE_SIZE

C13_EmptyRunIsNotAnError ==
    \A i \in Invocations :
        (QueryAnswered(i) /\ NoneEligible)
        => /\ pc[i] = "done"
           /\ result[i] = [statusCode |-> 200, body |-> "no_data", actions |-> <<>>]
           /\ actions[i] = <<>>
           /\ calls[i] = <<>>
           /\ sinks[i] = NoSinks
           /\ ledger = <<>>
           /\ log_calls[i] = 0

C13_Witness ==
    /\ pc["A"] = "done"
    /\ result["A"].statusCode = 200
    /\ NoneEligible
    /\ \E r \in Range(store) : r.avg_cpc > MAX_CPC

\* C14: a run whose SNS publish or CloudWatch put_metric_data failed never
\* returns an error: it goes on and returns status 200 with every action it
\* took.
SinkFailure(i) == sinks[i].sns = "failed" \/ sinks[i].cloudwatch = "failed"

C14_SinkFailureIsNotRunFailure ==
    \A i \in Invocations :
        SinkFailure(i)
        => /\ pc[i] \in {"metrics", "return", "done"}
           /\ pc[i] = "done"
                 => result[i] = [statusCode |-> 200, body |-> "actions",
                                 actions |-> actions[i]]

C14_Witness ==
    /\ pc["A"] = "done"
    /\ sinks["A"] = [sns |-> "failed", cloudwatch |-> "failed"]
    /\ Len(result["A"].actions) = 2

\* C15: a run in which a ledger write failed returns a result that shows it:
\* the result differs from the result of a run that took the same actions and
\* whose ledger writes all succeeded; and every action whose platform call
\* succeeded is in the returned action list.
AppliedActionsKept(i) ==
    \A c \in Range(calls[i]) :
        c.ok => \E a \in Range(result[i].actions) :
                    IF c.op = "pause"
                    THEN a.action = "paused" /\ a.creative_id = c.id
                    ELSE a.action = "bid_adjustment" /\ a.campaign_id = c.id

C15_LedgerFailureSurfaced ==
    /\ \A i \in Invocations :
          (Returned(i) /\ log_failed[i] > 0) => AppliedActionsKept(i)
    /\ (Returned("A") /\ Returned("B") /\ actions["A"] = actions["B"]
           /\ log_failed["A"] > 0 /\ log_failed["B"] = 0)
       => result["A"] # result["B"]

\* C16: when a run whose ledger writes all succeeded returns, the ledger
\* holds exactly one entry of the run for every pause or bid-update call it
\* made, the failed calls included.
EntriesFor(i, c) ==
    { k \in DOMAIN ledger :
        /\ ledger[k].run = i
        /\ ledger[k].resource_id = c.id
        /\ ledger[k].action_type =
              IF c.op = "pause" THEN "pause_creative" ELSE "adjust_bid" }

C16_EveryAttemptJournaled ==
    \A i \in Invocations :
        (Returned(i) /\ log_failed[i] = 0)
        => \A c \in Range(calls[i]) : Cardinality(EntriesFor(i, c)) = 1

\* C17: when a run returns, its action list holds an action for every
\* platform call that failed.
C17_FailedActionSurfaced ==
    \A i \in Invocations :
        Returned(i)
        => \A c \in Range(calls[i]) :
              ~c.ok => \E a \in Range(result[i].actions) :
                          IF c.op = "pause"
                          THEN a.action = "paused" /\ a.creative_id = c.id
                          ELSE a.action = "bid_adjustment" /\ a.campaign_id = c.id

\* C18: a run makes at most one pause call for each record and at most one
\* bid-update call for each campaign, also when the call fails.
CallsTo(i, op, id) ==
    Cardinality({ k \in DOMAIN calls[i] : calls[i][k].op = op /\ calls[i][k].id = id })

C18_NoRetry ==
    \A i \in Invocations :
        /\ \A r \in Range(store) : CallsTo(i, "pause", r.creative_id) <= 1
        /\ \A c \in CampaignIds : CallsTo(i, "update_bid", c) <= 1

C18_Witness ==
    /\ Returned("A")
    /\ \E c \in Range(calls["A"]) : c.op = "pause" /\ ~c.ok
    /\ \E c \in Range(calls["A"]) : c.op = "update_bid" /\ ~c.ok

\* C19: with one writer at a time, every step that changes the day's log
\* is the put of a log_action call and leaves the log as it was before the
\* call, followed by the call's one entry.
C19_AppendOnly ==
    [][ledger' # ledger
         => \E i \in Invocations :
               /\ pc[i] = "log_put"
               /\ pc'[i] # "log_put"
               /\ ledger' = ledger \o <<log_entry[i]>>]_vars

C19_Witness ==
    /\ Len(ledger) >= 3
    /\ ledger[1].run = "A"
    /\ ledger[Len(ledger)].run = "B"

\* C20: a creative gets at most one pause call per run, a campaign at most
\* one bid-update call per run, and every bid adjustment of a run is computed
\* from the campaign's records that the run did not pause.
PausedIn(i) == { a.creative_id : a \in { b \in Range(actions[i]) : b.action = "paused" } }

ActiveRows(i) == SelectSeq(df[i], LAMBDA r : r.creative_id \notin PausedIn(i))

C20_NoResourceActedTwice ==
    \A i \in Invocations :
        Returned(i)
        => /\ \A r \in Range(store) : CallsTo(i, "pause", r.creative_id) <= 1
           /\ \A c \in CampaignIds : CallsTo(i, "update_bid", c) <= 1
           /\ \A a \in Range(actions[i]) :
                 a.action = "bid_adjustment"
                 => \E r \in Range(campaign_performance(ActiveRows(i))) :
                       /\ r.campaign_id = a.campaign_id
                       /\ a.old_bid = r.avg_cpc
                       /\ a.new_bid = calculate_optimal_bid_heuristic(r.avg_ctr, r.avg_cpc)

\* C21: every record has at most one creative action, and a record above
\* top_performer_ctr and above max_cpc is never flagged as a top performer: it
\* gets the pause call of the high-CPC rule, and no action at all when that
\* call fails.
CreativeActionsOf(i, creative_id) ==
    SelectSeq(actions[i], LAMBDA a : a.action \in {"paused", "top_performer"}
                                      /\ a.creative_id = creative_id)

Evaluated(i, k) ==
    \/ pc[i] \in {"bids", "report", "metrics", "return"}
    \/ Returned(i)
    \/ pc[i] = "creatives" /\ idx[i] > k
    \/ Logging(i) /\ (ret[i] = "bids" \/ idx[i] >= k)

C21_CostControlDominates ==
    \A i \in Invocations :
        \A k \in DOMAIN df[i] :
            LET r == df[i][k]
                mine == CreativeActionsOf(i, r.creative_id)
            IN  /\ Len(mine) <= 1
                /\ (r.avg_ctr > TOP_PERFORMER_THRESHOLD /\ r.avg_cpc > MAX_CPC)
                   => /\ \A a \in Range(mine) :
                            a.action = "paused" /\ a.reason = "high_cpc"
                      /\ Evaluated(i, k) => CallsTo(i, "pause", r.creative_id) = 1
                      /\ mine # <<>> <=> \E c \in Range(calls[i]) :
                                             c.op = "pause" /\ c.id = r.creative_id /\ c.ok

C21_Witness ==
    /\ Returned("A")
    /\ \E r \in Range(df["A"]) :
          /\ r.avg_ctr > TOP_PERFORMER_THRESHOLD
          /\ r.avg_cpc > MAX_CPC
          /\ \E c \in Range(calls["A"]) : c.op = "pause" /\ c.id = r.creative_id /\ ~c.ok
          /\ CreativeActionsOf("A", r.creative_id) = <<>>

\* C22: when the run returns, an eligible record with avg_ctr >= min_ctr,
\* avg_cpc <= max_cpc and avg_ctr > top_performer_ctr has exactly one action, a
\* top_performer; no platform call was made for its creative; and, the ledger
\* writes having succeeded, the ledger holds exactly one entry for it, an
\* identify_winner.
Winner(r) ==
    /\ r.total_clicks >= MIN_SAMPLE_SIZE
    /\ r.avg_ctr >= MIN_CTR_THRESHOLD
    /\ r.avg_cpc <= MAX_CPC
    /\ r.avg_ctr > TOP_PERFORMER_THRESHOLD

LedgerEntriesOf(creative_id) ==
    SelectSeq(ledger, LAMBDA e : e.resource_id = creative_id
                                  /\ e.action_type \in {"pause_creative", "identify_winner"})

C22_WinnerFlaggedOnce ==
    \A i \in Invocations :
        Returned(i)
        => \A r \in Range(store) :
              Winner(r)
              => /\ Len(ActionsFor(i, r.creative_id)) = 1
                 /\ ActionsFor(i, r.creative_id)[1].action = "top_performer"
                 /\ CallsTo(i, "pause", r.creative_id) = 0
                 /\ log_failed[i] = 0
                       => /\ Len(LedgerEntriesOf(r.creative_id)) = 1
                          /\ LedgerEntriesOf(r.creative_id)[1].action_type = "identify_winner"

C22_Witness ==
    /\ Returned("A")
    /\ log_failed["A"] = 0
    /\ \E r \in Range(store) : Winner(r) /\ r.avg_ctr = 450 /\ r.avg_cpc = 300

\* C23: in the action list no bid adjustment precedes a creative action, the
\* creative actions are in the order of their records in the input and the bid
\* adjustments in ascending campaign order.
IsBid(a) == a.action = "bid_adjustment"

C23_ActionsOrdered ==
    \A i \in Invocations :
        \A j, k \in DOMAIN actions[i] :
            j < k
            => LET a == actions[i][j]
                   b == actions[i][k]
               IN  /\ IsBid(a) => IsBid(b)
                   /\ (~IsBid(a) /\ ~IsBid(b)) => a.creative_id < b.creative_id
                   /\ (IsBid(a) /\ IsBid(b)) => a.campaign_id < b.campaign_id

C23_Witness ==
    /\ Returned("A")
    /\ Len(result["A"].actions) = 4
    /\ ~IsBid(result["A"].actions[2])
    /\ IsBid(result["A"].actions[3])

\* C24 as stated: for current_ctr > 0, whenever [0.7 * current_cpc,
\* 1.5 * current_cpc] lies inside [1.0, 15.0], the returned bid is at least
\* 0.7 * current_cpc and at most 1.5 * current_cpc.
StepInsideRange(cpc) ==
    /\ RLe(Rat(BID_FLOOR), RMul(cpc, <<7, 10>>))
    /\ RLe(RMul(cpc, <<3, 2>>), Rat(BID_CEILING))

WithinStep(ctr, cpc, bid) ==
    (ctr[1] > 0 /\ StepInsideRange(cpc))
    => RLe(RMul(cpc, <<7, 10>>), bid) /\ RLe(bid, RMul(cpc, <<3, 2>>))

C24_SingleStepLimit ==
    /\ hx.pc = "evaluated" =>
          /\ WithinStep(Rat(hx.ctr_low), Rat(hx.cpc), hx.bid_low)
          /\ WithinStep(Rat(hx.ctr_high), Rat(hx.cpc), hx.bid_high)
    /\ \A i \in Invocations :
          loc[i].campaign_id # 0
          => WithinStep(loc[i].current_ctr, loc[i].current_cpc, loc[i].optimal_bid)

\* C24 amended: under the same conditions the returned bid lies between
\* 0.7 * current_cpc and 1.5 * current_cpc, each rounded to two decimals.
WithinRoundedStep(ctr, cpc, bid) ==
    (ctr[1] > 0 /\ StepInsideRange(cpc))
    => /\ RLe(Round2(RMul(cpc, <<7, 10>>)), bid)
       /\ RLe(bid, Round2(RMul(cpc, <<3, 2>>)))

C24_SingleStepLimitRounded ==
    /\ hx.pc = "evaluated" =>
          /\ WithinRoundedStep(Rat(hx.ctr_low), Rat(hx.cpc), hx.bid_low)
          /\ WithinRoundedStep(Rat(hx.ctr_high), Rat(hx.cpc), hx.bid_high)
    /\ \A i \in Invocations :
          loc[i].campaign_id # 0
          => WithinRoundedStep(loc[i].current_ctr, loc[i].current_cpc,
                               loc[i].optimal_bid)

C24_Witness ==
    /\ hx.pc = "evaluated"
    /\ hx.ctr_low > 0
    /\ StepInsideRange(Rat(hx.cpc))
    /\ hx.bid_low = Round2(RMul(Rat(hx.cpc), <<3, 2>>))
    /\ RLt(hx.bid_high, RMul(Rat(hx.cpc), <<7, 10>>))

\* C25: every pause_creative or adjust_bid entry in the ledger, and every such
\* entry a log_action call is about to write, is for a resource for which the
\* same run has made a successful platform call before.
AppliedBefore(e) ==
    /\ e.run \in Invocations
    /\ \E c \in Range(calls[e.run]) :
          /\ c.ok
          /\ c.id = e.resource_id
          /\ c.op = IF e.action_type = "pause_creative" THEN "pause" ELSE "update_bid"

C25_OnlyAppliedActionsLogged ==
    \A e \in Range(ledger) \cup { log_entry[i] : i \in Invocations }
               \cup UNION { Range(existing_logs[i]) : i \in Invocations } :
        e.action_type \in {"pause_creative", "adjust_bid"} => AppliedBefore(e)

C25_Witness ==
    /\ Returned("A")
    /\ \E e \in Range(ledger) : e.action_type = "adjust_bid"
    /\ \E c \in Range(calls["A"]) : c.op = "pause" /\ ~c.ok

\* C26: at every point of a run the paused and bid_adjustment actions of the
\* list are, one for one and in the same order, the pause and bid-update calls
\* that succeeded so far, whether or not their ledger writes succeeded.
AppliedCalls(i) == SelectSeq(calls[i], LAMBDA c : c.ok)

PlatformActions(i) ==
    SelectSeq(actions[i], LAMBDA a : a.action \in {"paused", "bid_adjustment"})

C26_ActionsMatchApplied ==
    \A i \in Invocations :
        /\ Len(PlatformActions(i)) = Len(AppliedCalls(i))
        /\ \A k \in DOMAIN AppliedCalls(i) :
              LET c == AppliedCalls(i)[k]
                  a == PlatformActions(i)[k]
              IN  IF c.op = "pause"
                  THEN a.action = "paused" /\ a.creative_id = c.id
                  ELSE /\ a.action = "bid_adjustment"
                       /\ a.campaign_id = c.id
                       /\ a.new_bid = c.new_bid

C26_Witness ==
    /\ Returned("A")
    /\ log_failed["A"] = 2
    /\ ledger = <<>>
    /\ Len(PlatformActions("A")) = 2
    /\ \E c \in Range(calls["A"]) : ~c.ok

\* C27: a run that starts on the ledger left by an earlier run of the same
\* snapshot, and gets the same answers from the platform, makes the same
\* platform calls and returns the same actions as the earlier run, which
\* started on an empty ledger; a creative the earlier run paused and logged is
\* paused again.
SameAnswers ==
    \A k \in DOMAIN calls["A"] \cap DOMAIN calls["B"] :
        calls["A"][k].ok = calls["B"][k].ok

C27_LedgerDoesNotDecide ==
    (Returned("A") /\ Returned("B") /\ SameAnswers)
    => /\ calls["A"] = calls["B"]
       /\ result["A"] = result["B"]
       /\ \A e \in Range(ledger) :
             (e.run = "A" /\ e.action_type = "pause_creative")
             => \E c \in Range(calls["B"]) :
                   c.op = "pause" /\ c.id = e.resource_id /\ c.ok

C27_Witness ==
    /\ Returned("A")
    /\ Returned("B")
    /\ \E j, k \in DOMAIN ledger :
          /\ j < k
          /\ ledger[j].run = "A"
          /\ ledger[k].run = "B"
          /\ ledger[j].action_type = "pause_creative"
          /\ ledger[k].action_type = "pause_creative"
          /\ ledger[j].resource_id = ledger[k].resource_id

\* C28: a record with avg_ctr = min_ctr has no low-CTR pause, one with
\* avg_cpc = max_cpc no high-CPC pause, one with avg_ctr = top_performer_ctr is
\* not flagged, and a record with min_ctr <= avg_ctr <= top_performer_ctr and
\* avg_cpc <= max_cpc has no action, no pause call and no ledger entry.
C28_StrictBoundaries ==
    \A i \in Invocations :
        \A r \in Range(df[i]) :
            LET mine == Range(ActionsFor(i, r.creative_id))
            IN  /\ r.avg_ctr = MIN_CTR_THRESHOLD
                      => \A a \in mine : a.reason # "low_ctr"
                /\ r.avg_cpc = MAX_CPC
                      => \A a \in mine : a.reason # "high_cpc"
                /\ r.avg_ctr = TOP_PERFORMER_THRESHOLD
                      => \A a \in mine : a.action # "top_performer"
                /\ (r.avg_ctr >= MIN_CTR_THRESHOLD
                       /\ r.avg_ctr <= TOP_PERFORMER_THRESHOLD
                       /\ r.avg_cpc <= MAX_CPC)
                   => CreativeUntouched(i, r.creative_id)

C28_Witness ==
    /\ Returned("A")
    /\ \E r \in Range(df["A"]) : r.avg_ctr = MIN_CTR_THRESHOLD
    /\ \E r \in Range(df["A"]) :
          r.avg_cpc = MAX_CPC /\ r.avg_ctr = TOP_PERFORMER_THRESHOLD
    /\ \A r \in Range(df["A"]) : CreativeUntouched("A", r.creative_id)

\* C29: every invocation of the rotator that moves AWSCURRENT is a
\* finishSecret; createSecret, setSecret, testSecret and an unknown step leave
\* it where it was; an unknown step raises, and a testSecret whose token test
\* fails raises.
C29_OnlyFinishMovesCurrent ==
    /\ [](rot.tested = "failed" => rot.step = "testSecret" /\ rot.status = "raised")
    /\ [](rot.step = "deleteSecret" => rot.status = "raised")
    /\ [][rot'.current # rot.current
            => rot'.step = "finishSecret" /\ rot'.status = "success"]_vars

C29_Witness ==
    /\ rot.current = 2
    /\ rot.pending = 3
    /\ rot.step = "testSecret"
    /\ rot.tested = "failed"
    /\ rot.status = "raised"

\* C30: when the collector returns 200, every campaign to process has one
\* pull, successful_pulls + failed_pulls is the number of campaigns, and
\* successful_pulls is the number of campaigns whose payload was saved.
SavedPulls == { k \in DOMAIN collector.pulls : collector.pulls[k].saved }

C30_EveryCampaignCountedOnce ==
    (collector.pc = "done" /\ collector.statusCode = 200)
    => /\ Len(collector.pulls) = Len(collector.campaigns)
       /\ collector.successful_pulls + collector.failed_pulls = Len(collector.campaigns)
       /\ collector.successful_pulls = Cardinality(SavedPulls)

C30_Witness ==
    /\ collector.pc = "done"
    /\ collector.statusCode = 200
    /\ collector.successful_pulls = 1
    /\ collector.failed_pulls = 2
    /\ \E k \in DOMAIN collector.pulls :
          ~collector.pulls[k].analytics /\ ~collector.pulls[k].details
    /\ \E k \in DOMAIN collector.pulls :
          collector.pulls[k].analytics /\ ~collector.pulls[k].saved

====
